---- MODULE Spec2Model ----
(***************************************************************************)
(* Fortmix ERP: the REST backend in its three variants.                    *)
(*   "embedded"      the SQLite server            (src/unnamed/part_000)   *)
(*   "dualEmbedded"  the dual server, no SUPABASE_URL (src/unnamed/part_001)*)
(*   "dualHosted"    the dual server, SUPABASE_URL set (src/unnamed/part_001)*)
(*   "hosted"        the Supabase server          (src/unnamed/part_002)   *)
(* A better-sqlite3 handler runs to completion in one step of the event    *)
(* loop; a Supabase handler yields at every await, so each store call of   *)
(* a hosted handler is a step of its own and two requests interleave.      *)
(* Money is in centavos.                                                    *)
(***************************************************************************)
EXTENDS Integers, Sequences, FiniteSets, TLC

VARIABLES
  variant,   \* which server file / code path is running (fixed)
  db,        \* the six tables
  tokens,    \* user ids holding a signed, unexpired bearer token
  reqs,      \* hosted requests in flight, one slot per connection
  nreq,      \* requests that have reached a store write so far
  nfault,    \* store writes that have failed so far
  now,       \* the server's clock: the position of today in Days
  last,      \* the response this step sent (NoResp: none), with what
             \* its request did
  pdv        \* the point-of-sale screen of the client: its cart, its
             \* isProcessing flag and the POST /api/sales requests it awaits

vars == <<variant, db, tokens, reqs, nreq, nfault, now, last, pdv>>

\* ---------------------------------------------------------------- bounds
MaxReq == 2
MaxFaults == 1

Variants == {"embedded", "dualEmbedded", "dualHosted", "hosted"}
Hosted == variant \in {"dualHosted", "hosted"}
Clients == {1, 2}
NULL == 0 - 1

\* The days the clock passes through, as yyyymmdd: one in the same month of
\* the year before and two of the current month.
Days == <<20251120, 20261102, 20261104>>
Today == Days[now]

\* ---------------------------------------------------------------- schema
SeedUsers ==
  <<[id |-> 1, username |-> "admin", name |-> "Administrador", role |-> "Dono"]>>

\* Accounts the owner created before this start of the server: the store
\* outlives the process and the seed only runs on an empty users table.
Staff ==
  <<[id |-> 2, username |-> "gil", name |-> "Gil", role |-> "Gerente"],
    [id |-> 3, username |-> "vera", name |-> "Vera", role |-> "Vendedor"]>>

SeedProducts ==
  <<[id |-> 1, code |-> "001", name |-> "Cimento", price |-> 3290,
     cost_price |-> 2500, stock_quantity |-> 100, min_stock |-> 20],
    [id |-> 2, code |-> "002", name |-> "Argamassa", price |-> 1550,
     cost_price |-> 1000, stock_quantity |-> 50, min_stock |-> 15]>>

SeededDb ==
  [users |-> SeedUsers \o Staff, products |-> SeedProducts, sales |-> <<>>,
   sale_items |-> <<>>, stock_movements |-> <<>>, audit_logs |-> <<>>]

\* ---------------------------------------------------------------- inputs
\* Bearer credentials a request can carry.
\* "invalid": a token jwt.verify reports an error for (expired, wrongly
\* signed); it still decodes to a payload, here the owner's.
BadCreds == {[kind |-> "none", uid |-> 0], [kind |-> "invalid", uid |-> 1]}
Creds == BadCreds \cup {[kind |-> "valid", uid |-> u] : u \in tokens}

\* POST /api/sales bodies: items, payment_method, total.
Item(i, q, p) == [id |-> i, quantity |-> q, price |-> p]
Carts ==
  {[items |-> <<Item(1, 5, 3290)>>, total |-> 16450],
   [items |-> <<Item(1, 3, 3290), Item(2, 1, 1550)>>, total |-> 11420],
   [items |-> <<Item(9, 1, 100)>>, total |-> 100]}
PaymentMethod == "Dinheiro"

\* Product form bodies (the client's form sends no stock_quantity).
ProductForms ==
  {[code |-> "001", name |-> "Cimento", price |-> 3500, cost_price |-> 2600,
    min_stock |-> 20, stock_quantity |-> NULL],
   [code |-> "003", name |-> "Tubo", price |-> 8900, cost_price |-> 6000,
    min_stock |-> 5, stock_quantity |-> NULL]}
FormOf(code) == CHOOSE f \in ProductForms : f.code = code
\* PUT /api/products/:id requests: the id and the form sent.
ProductEdits == {<<1, FormOf("001")>>, <<2, FormOf("001")>>, <<9, FormOf("003")>>}

UserForms == {[username |-> "admin", name |-> "Ana", role |-> "Vendedor"],
              [username |-> "ana", name |-> "Ana", role |-> "Vendedor"]}

\* ---------------------------------------------------------------- store
Rows(t) == {t[i] : i \in DOMAIN t}

ProductExists(d, pid) == pid \in DOMAIN d.products

\* A products table without the UNIQUE constraint on code.
CodeTakenNever(d, code, self) == FALSE

\* UNIQUE(code): another row already holds the code.
CodeTaken(d, code, self) ==
  \E i \in DOMAIN d.products : i # self /\ d.products[i].code = code

\* UNIQUE(username)
UsernameTaken(d, username) ==
  \E i \in DOMAIN d.users : d.users[i].username = username

FindUser(d, username) == {u \in Rows(d.users) : u.username = username}

InsertProduct(d, f, stock) ==
  [d EXCEPT !.products = Append(@,
     [id |-> Len(@) + 1, code |-> f.code, name |-> f.name, price |-> f.price,
      cost_price |-> f.cost_price, stock_quantity |-> stock,
      min_stock |-> f.min_stock])]

\* An update that creates the row when the id matches none.
UpdateProductRowUpsert(d, pid, f) ==
  IF ProductExists(d, pid)
  THEN [d EXCEPT !.products[pid] =
          [@ EXCEPT !.code = f.code, !.name = f.name, !.price = f.price,
                    !.cost_price = f.cost_price, !.min_stock = f.min_stock]]
  ELSE InsertProduct(d, f, 0)

\* UPDATE products SET code, name, category, price, cost_price, min_stock,
\* unit WHERE id: no row is touched when the id matches none.
UpdateProductRow(d, pid, f) ==
  IF ProductExists(d, pid)
  THEN [d EXCEPT !.products[pid] =
          [@ EXCEPT !.code = f.code, !.name = f.name, !.price = f.price,
                    !.cost_price = f.cost_price, !.min_stock = f.min_stock]]
  ELSE d

\* products.update({ stock_quantity: v }).eq('id', pid)
WriteStock(d, pid, v) ==
  IF ProductExists(d, pid)
  THEN [d EXCEPT !.products[pid].stock_quantity = v]
  ELSE d

\* A decrement that stops at zero.
DecrementStockFloored(d, pid, qty) ==
  IF ProductExists(d, pid)
  THEN [d EXCEPT !.products[pid].stock_quantity =
          IF @ - qty < 0 THEN 0 ELSE @ - qty]
  ELSE d

\* UPDATE products SET stock_quantity = stock_quantity - ? WHERE id = ?
DecrementStock(d, pid, qty) ==
  IF ProductExists(d, pid)
  THEN [d EXCEPT !.products[pid].stock_quantity = @ - qty]
  ELSE d

InsertUser(d, f) ==
  [d EXCEPT !.users = Append(@,
     [id |-> Len(@) + 1, username |-> f.username, name |-> f.name,
      role |-> f.role])]

\* A header insert that stores whole currency units only.
InsertSaleWholeUnits(d, uid, total, pm) ==
  [d EXCEPT !.sales = Append(@,
     [id |-> Len(@) + 1, user_id |-> uid, total |-> total - (total % 100),
      payment_method |-> pm, created_at |-> Today])]

\* A header insert that stores no row.
InsertSaleNowhere(d, uid, total, pm) == d

InsertSale(d, uid, total, pm) ==
  [d EXCEPT !.sales = Append(@,
     [id |-> Len(@) + 1, user_id |-> uid, total |-> total,
      payment_method |-> pm, created_at |-> Today])]

\* Newest row first.
InsertSaleItemFirst(d, saleId, item, cost) ==
  [d EXCEPT !.sale_items =
     <<[id |-> Len(@) + 1, sale_id |-> saleId, product_id |-> item.id,
        quantity |-> item.quantity, price |-> item.price,
        cost_price |-> cost]>> \o @]

InsertSaleItem(d, saleId, item, cost) ==
  [d EXCEPT !.sale_items = Append(@,
     [id |-> Len(@) + 1, sale_id |-> saleId, product_id |-> item.id,
      quantity |-> item.quantity, price |-> item.price, cost_price |-> cost])]

\* One movement per sale and product: a repeated product adds no row.
InsertMovementOnce(d, item, uid, saleId) ==
  IF \E i \in DOMAIN d.stock_movements :
       /\ d.stock_movements[i].reason = saleId
       /\ d.stock_movements[i].product_id = item.id
  THEN d
  ELSE [d EXCEPT !.stock_movements = Append(@,
          [id |-> Len(@) + 1, product_id |-> item.id, user_id |-> uid,
           type |-> "OUT", quantity |-> item.quantity, reason |-> saleId])]

\* type 'OUT', reason `Venda #${saleId}`
InsertMovement(d, item, uid, saleId) ==
  [d EXCEPT !.stock_movements = Append(@,
     [id |-> Len(@) + 1, product_id |-> item.id, user_id |-> uid,
      type |-> "OUT", quantity |-> item.quantity, reason |-> saleId])]

InsertAuditOverwrite(d, uid, action, entity, ref) ==
  LET row == [id |-> Len(d.audit_logs) + 1, user_id |-> uid,
              action |-> action, entity |-> entity, details |-> ref]
  IN  IF d.audit_logs = <<>>
      THEN [d EXCEPT !.audit_logs = <<row>>]
      ELSE [d EXCEPT !.audit_logs[Len(d.audit_logs)] =
                       [row EXCEPT !.id = Len(d.audit_logs)]]

\* INSERT INTO audit_logs (user_id, action, entity, details); details keeps
\* what the text names: <<code or username or "Venda", sale id or 0>>.
InsertAudit(d, uid, action, entity, ref) ==
  [d EXCEPT !.audit_logs = Append(@,
     [id |-> Len(@) + 1, user_id |-> uid, action |-> action,
      entity |-> entity, details |-> ref])]

\* ---------------------------------------------------------------- access gate
\* A gate that lets any presented token through.
authenticateTokenNoVerify(cred) ==
  IF cred.kind = "none" THEN 401 ELSE 200

\* A gate that answers 401 to every token it does not accept.
authenticateTokenStrict(cred) ==
  IF cred.kind = "valid" THEN 200 ELSE 401

\* 401 without a token, 403 when jwt.verify reports an error, else next().
authenticateToken(cred) ==
  IF cred.kind = "none" THEN 401
  ELSE IF cred.kind # "valid" THEN 403
  ELSE 200

\* req.user: the payload signed at login (id, username, role).
TokenUser(cred) == db.users[cred.uid]

\* A product route without its role test.
ProductForbiddenNobody(role) == FALSE

\* if (req.user.role === 'Vendedor') return 403
ProductForbidden(role) == role = "Vendedor"

\* if (req.user.role !== 'Dono') return 403
OwnerOnlyForbidden(role) == role # "Dono"

\* ---------------------------------------------------------------- requests
Idle == [pc |-> "idle"]
InFlight == {c \in Clients : reqs[c].pc # "idle"}

Stocks(d) == [i \in DOMAIN d.products |-> d.products[i].stock_quantity]

\* What a request has done, kept for the properties: whether a store write
\* of it failed, whether no other writing request overlapped it, its line
\* items and the store it started from.
Trace(failed, solo, items, pre) ==
  [failed |-> failed, solo |-> solo, items |-> items, pre |-> pre]
NoTrace == Trace(FALSE, TRUE, <<>>, db)

RoleOf(cred) ==
  IF cred.uid \in DOMAIN db.users THEN TokenUser(cred).role ELSE "-"

\* A response; status NULL: the handler ended without sending any.
Resp(kind, cred, status, id, data, handled, t) ==
  [kind |-> kind, cred |-> cred.kind, uid |-> cred.uid, role |-> RoleOf(cred),
   status |-> status, id |-> id, data |-> data, handled |-> handled, failed |-> t.failed,
   solo |-> t.solo, items |-> t.items, pre |-> t.pre]

NoCred == [kind |-> "none", uid |-> 0]
NoResp == Resp("none", NoCred, 0, 0, {}, FALSE, Trace(FALSE, TRUE, <<>>, SeededDb))

Rejected(kind, cred, status) == Resp(kind, cred, status, 0, {}, FALSE, NoTrace)

\* The fields of a hosted request in flight.
NewReq(kind, cred, uid) ==
  [pc |-> "audit", kind |-> kind, cred |-> cred, uid |-> uid, items |-> <<>>,
   total |-> 0, saleId |-> 0, idx |-> 0, read |-> [found |-> FALSE, cost |-> 0, stock |-> 0],
   id |-> 0, audit |-> <<"", "", <<"", 0>>>>, failed |-> FALSE,
   solo |-> InFlight = {}, pre |-> db]

\* A request that goes on past its first store call: the ones in flight are
\* no longer alone.
Arrive(c, r) ==
  [d \in Clients |->
     IF d = c THEN r
     ELSE IF reqs[d].pc # "idle" THEN [reqs[d] EXCEPT !.solo = FALSE]
     ELSE reqs[d]]

Leave(c) == [reqs EXCEPT ![c] = Idle]

\* Whether the next store write fails: at most MaxFaults do.
FaultChoice == IF nfault < MaxFaults THEN {FALSE, TRUE} ELSE {FALSE}
Count(f) == IF f THEN 1 ELSE 0

\* A request arrives on the first free connection.
Receive(c) ==
  /\ reqs[c].pc = "idle"
  /\ \A d \in Clients : d < c => reqs[d].pc # "idle"

\* The request goes on to write to the store.
Admit ==
  /\ nreq < MaxReq
  /\ nreq' = nreq + 1

\* useState<SaleItem[]>([]), useState(false): the screen as it mounts, with
\* no request sent (posts) and none awaited (pending).
PdvStart == [cart |-> <<>>, isProcessing |-> FALSE, pending |-> {}, posts |-> 0]

Init ==
  /\ variant \in Variants
  /\ db = SeededDb
  /\ tokens = {1}
  /\ reqs = [c \in Clients |-> Idle]
  /\ nreq = 0
  /\ nfault = MaxFaults
  /\ now = Len(Days)
  /\ last = NoResp
  /\ pdv = PdvStart

\* The same start, with store writes that can still fail.
InitFaulty ==
  /\ variant \in Variants
  /\ db = SeededDb
  /\ tokens = {1}
  /\ reqs = [c \in Clients |-> Idle]
  /\ nreq = 0
  /\ nfault = 0
  /\ now = Len(Days)
  /\ last = NoResp
  /\ pdv = PdvStart

\* ---------------------------------------------------------------- login
LoginBodies == {<<"admin", TRUE>>, <<"gil", TRUE>>, <<"vera", TRUE>>,
                <<"admin", FALSE>>, <<"zed", TRUE>>}

\* POST /api/auth/login: no gate. body[2]: bcrypt.compareSync accepts.
Login(c, body) ==
  /\ Receive(c)
  /\ UNCHANGED <<variant, now, pdv>>
  /\ LET found == FindUser(db, body[1]) IN
     IF found = {} \/ ~body[2]
     THEN /\ last' = Resp("login", NoCred, 401, 0, {}, TRUE, NoTrace)
          /\ UNCHANGED <<db, tokens, reqs, nreq, nfault>>
     ELSE LET u == CHOOSE x \in found : TRUE
              who == [kind |-> "none", uid |-> u.id]
          IN
          IF Hosted
          THEN /\ Admit
               /\ reqs' = Arrive(c, [NewReq("login", who, u.id) EXCEPT
                           !.id = u.id,
                           !.audit = <<"LOGIN", "AUTH", <<"login", 0>>>>])
               /\ last' = NoResp
               /\ UNCHANGED <<db, tokens, nfault>>
          ELSE \E f \in FaultChoice :
               /\ Admit
               /\ nfault' = nfault + Count(f)
               /\ UNCHANGED reqs
               /\ IF f
                  THEN \* logAudit throws: express answers 500 in the sync
                       \* handler; the async one never answers
                       /\ last' = Resp("login", who,
                                       IF variant = "embedded" THEN 500 ELSE NULL,
                                       0, {}, TRUE, Trace(TRUE, TRUE, <<>>, db))
                       /\ UNCHANGED <<db, tokens>>
                  ELSE /\ db' = InsertAudit(db, u.id, "LOGIN", "AUTH", <<"login", 0>>)
                       /\ tokens' = tokens \cup {u.id}
                       /\ last' = Resp("login", who, 200, u.id, {}, TRUE, NoTrace)

\* The last store call of a hosted handler: await logAudit(...), whose
\* result is not looked at, then the success response.
HostedAudit(c) ==
  /\ reqs[c].pc = "audit"
  /\ UNCHANGED <<variant, now, pdv, nreq>>
  /\ LET r == reqs[c] IN
     \E f \in FaultChoice :
       /\ nfault' = nfault + Count(f)
       /\ db' = IF f THEN db
                ELSE InsertAudit(db, r.uid, r.audit[1], r.audit[2], r.audit[3])
       /\ tokens' = IF r.kind = "login" THEN tokens \cup {r.uid} ELSE tokens
       /\ reqs' = Leave(c)
       /\ last' = Resp(r.kind, r.cred, 200, r.id, {}, TRUE,
                       Trace(r.failed \/ f, r.solo, r.items, r.pre))

\* ---------------------------------------------------------------- reads
\* A GET behind the gate: one query, answered with its rows.
Gated(c, kind, cred, forbidden, data) ==
  /\ Receive(c)
  /\ UNCHANGED <<variant, now, pdv, db, tokens, reqs, nreq, nfault>>
  /\ LET auth == authenticateToken(cred) IN
     IF auth # 200 THEN last' = Rejected(kind, cred, auth)
     ELSE IF forbidden THEN last' = Rejected(kind, cred, 403)
     ELSE last' = Resp(kind, cred, 200, 0, data, TRUE, NoTrace)

\* GET /api/products
GetProducts(c, cred) == Gated(c, "products", cred, FALSE, Rows(db.products))

\* GET /api/stock/movements
GetMovements(c, cred) ==
  Gated(c, "movements", cred, FALSE, Rows(db.stock_movements))

\* GET /api/audit
GetAudit(c, cred) ==
  Gated(c, "audit", cred, OwnerOnlyForbidden(RoleOf(cred)), Rows(db.audit_logs))

\* GET /api/users
GetUsers(c, cred) ==
  Gated(c, "users", cred, OwnerOnlyForbidden(RoleOf(cred)), Rows(db.users))


\* ---------------------------------------------------------------- dashboard, reports
\* ?from&to of a GET; NoRange: the query carries none.
NoRange == [from |-> 0, to |-> 0]
Ranges == {NoRange, [from |-> 20261101, to |-> 20261103]}
HasRange(q) == q.from # 0 /\ q.to # 0
\* created_at BETWEEN from AND to / .gte(from).lte(to)
InRange(t, q) == q.from <= t /\ t <= q.to

\* strftime('%m', created_at)
MonthOf(t) == (t \div 100) % 100
\* new Date(); setDate(1); setHours(0,0,0,0)
StartOfMonth(t) == (t \div 100) * 100 + 1

RECURSIVE Sum(_)
Sum(s) == IF s = <<>> THEN 0 ELSE Head(s) + Sum(Tail(s))

Totals(sales) == Sum([i \in DOMAIN sales |-> sales[i].total])

\* quantity * (price - IFNULL(cost_price, 0)) / (item.cost_price || 0)
Profit(i) ==
  i.quantity * (i.price - (IF i.cost_price = NULL THEN 0 ELSE i.cost_price))
Profits(items) == Sum([k \in DOMAIN items |-> Profit(items[k])])

\* sale_items JOIN sales ON si.sale_id = s.id / sales!inner(created_at)
SaleOf(d, i) == d.sales[i.sale_id]

\* today: COUNT(*) and SUM(total) of the sales of the range, or of today.
TodaySales(d, q) ==
  SelectSeq(d.sales, LAMBDA s :
    IF HasRange(q) THEN InRange(s.created_at, q) ELSE s.created_at = Today)

\* month.total as each server computes it.
MonthTotal(d, q) ==
  CASE variant = "embedded" ->
         Totals(SelectSeq(d.sales, LAMBDA s :
                  MonthOf(s.created_at) = MonthOf(Today)))
    [] variant = "hosted" ->
         Totals(SelectSeq(d.sales, LAMBDA s :
                  s.created_at >= StartOfMonth(Today)))
    [] variant = "dualEmbedded" ->
         Profits(SelectSeq(d.sale_items, LAMBDA i :
                   IF HasRange(q) THEN InRange(SaleOf(d, i).created_at, q)
                   ELSE MonthOf(SaleOf(d, i).created_at) = MonthOf(Today)))
    [] variant = "dualHosted" ->
         Profits(SelectSeq(d.sale_items, LAMBDA i :
                   IF HasRange(q) THEN InRange(SaleOf(d, i).created_at, q)
                   ELSE SaleOf(d, i).created_at >= StartOfMonth(Today)))

\* SELECT COUNT(*) FROM products WHERE stock_quantity <= min_stock; the
\* hosted servers filter with .lte('stock_quantity', 'min_stock'), which
\* compares the column with the text 'min_stock': the store rejects the
\* filter value, the count comes back null and `|| 0` answers 0.
CriticalStock(d) ==
  IF Hosted THEN 0
  ELSE Cardinality({p \in DOMAIN d.products :
         d.products[p].stock_quantity <= d.products[p].min_stock})

\* Days of each month, for the date arithmetic of date('now', '-7 days') and
\* of Date.setDate(getDate() - 7) on yyyymmdd day numbers.
MonthDays == <<31, 28, 31, 30, 31, 30, 31, 31, 30, 31, 30, 31>>
SevenDaysAgo(t) ==
  LET day == t % 100
      month == (t \div 100) % 100
      year == t \div 10000
  IN  IF day > 7 THEN t - 7
      ELSE IF month > 1
           THEN year * 10000 + (month - 1) * 100 + MonthDays[month - 1] + day - 7
           ELSE (year - 1) * 10000 + 1200 + 31 + day - 7

\* The sales the chart query selects: the requested period, or the last
\* seven days; the hosted-only server never looks at the period.
ChartSales(d, q) ==
  IF variant # "hosted" /\ HasRange(q)
  THEN SelectSeq(d.sales, LAMBDA s : InRange(s.created_at, q))
  ELSE SelectSeq(d.sales, LAMBDA s : s.created_at >= SevenDaysAgo(Today))

\* ORDER BY date ASC / .sort(localeCompare) / insertion order of rows read
\* in created_at order
RECURSIVE SortAsc(_)
SortAsc(S) ==
  IF S = {} THEN <<>>
  ELSE LET m == CHOOSE x \in S : \A y \in S : x <= y
       IN  <<m>> \o SortAsc(S \ {m})

\* GROUP BY date(created_at) with SUM(total)
ChartEntry(sales, day) ==
  [date |-> day, total |-> Totals(SelectSeq(sales, LAMBDA s : s.created_at = day))]

ChartData(d, q) ==
  LET sales == ChartSales(d, q)
      days == SortAsc({sales[i].created_at : i \in DOMAIN sales})
  IN  [i \in DOMAIN days |-> ChartEntry(sales, days[i])]

DashboardStats(d, q) ==
  [today |-> [count |-> Len(TodaySales(d, q)), total |-> Totals(TodaySales(d, q))],
   month |-> [total |-> MonthTotal(d, q)],
   criticalStock |-> CriticalStock(d),
   chartData |-> ChartData(d, q)]

\* GET /api/dashboard/stats
GetDashboard(c, cred, q) ==
  Gated(c, "dashboard", cred, FALSE, {[query |-> q, stats |-> DashboardStats(db, q)]})

\* LIMIT 10 / .slice(0, 10)
TopLimit == 10

\* The sales of the report: all of them, or those of the range.
ReportSales(d, q) ==
  SelectSeq(d.sales, LAMBDA s : ~HasRange(q) \/ InRange(s.created_at, q))

\* The sale items the top-products aggregation runs over. part_002 leaves
\* the range out of the items query (300-304); part_001's hosted path keeps
\* the items whose sale is in the sales list (505-506).
ReportItems(d, q) ==
  IF variant = "hosted" THEN d.sale_items
  ELSE SelectSeq(d.sale_items, LAMBDA i :
         ~HasRange(q) \/ InRange(SaleOf(d, i).created_at, q))

\* What the aggregation groups by: GROUP BY p.id, productStats[product_id]
\* (part_001), productStats[name] (part_002).
GroupKey(d, i) ==
  IF variant = "hosted" THEN d.products[i.product_id].name ELSE i.product_id

GroupOf(d, items, k) == SelectSeq(items, LAMBDA i : GroupKey(d, i) = k)

TotalQty(items) == Sum([n \in DOMAIN items |-> items[n].quantity])
TotalRevenue(items) ==
  Sum([n \in DOMAIN items |-> items[n].quantity * items[n].price])

\* One entry of topProducts: the name under which the group was opened (that
\* of its first item) and its sums.
TopEntry(d, items, k) ==
  LET g == GroupOf(d, items, k) IN
  [name |-> d.products[g[1].product_id].name,
   total_qty |-> TotalQty(g), total_revenue |-> TotalRevenue(g)]

\* ORDER BY total_revenue DESC / sort((a, b) => b.total_revenue - a.total_revenue)
RECURSIVE SortByRevenue(_, _, _)
SortByRevenue(d, items, keys) ==
  IF keys = {} THEN <<>>
  ELSE LET k == CHOOSE x \in keys : \A y \in keys :
                  TotalRevenue(GroupOf(d, items, x))
                    >= TotalRevenue(GroupOf(d, items, y))
       IN  <<TopEntry(d, items, k)>> \o SortByRevenue(d, items, keys \ {k})

TopProducts(d, q) ==
  LET items == ReportItems(d, q)
      keys == {GroupKey(d, items[n]) : n \in DOMAIN items}
      all == SortByRevenue(d, items, keys)
  IN  SubSeq(all, 1, IF Len(all) < TopLimit THEN Len(all) ELSE TopLimit)

\* SELECT si.*, p.name ... WHERE si.sale_id = ? / items.filter(i =>
\* i.sale_id === s.id): only part_001 attaches the items of a sale.
ItemsOfSale(d, s) ==
  {[id |-> i.id, sale_id |-> i.sale_id, product_id |-> i.product_id,
    quantity |-> i.quantity, price |-> i.price, cost_price |-> i.cost_price,
    name |-> d.products[i.product_id].name] :
     i \in {x \in Rows(d.sale_items) : x.sale_id = s.id}}

\* A row of the sales list: s.*, user_name and, in part_001, items.
ReportRow(d, s) ==
  [id |-> s.id, user_id |-> s.user_id, total |-> s.total,
   payment_method |-> s.payment_method, created_at |-> s.created_at,
   user_name |-> d.users[s.user_id].name,
   has_items |-> variant \in {"dualEmbedded", "dualHosted"},
   items |-> IF variant \in {"dualEmbedded", "dualHosted"}
             THEN ItemsOfSale(d, s) ELSE {}]

SalesReport(d, q) ==
  [sales |-> {ReportRow(d, s) : s \in Rows(ReportSales(d, q))},
   topProducts |-> TopProducts(d, q)]

\* GET /api/reports/sales
GetReport(c, cred, q) ==
  Gated(c, "report", cred, FALSE, {[query |-> q, report |-> SalesReport(db, q)]})

\* ---------------------------------------------------------------- handlers
\* Which store write of a synchronous handler throws (0: none); the first
\* throw ends the handler, so one position is enough.
FaultAt(n) == {0} \cup (IF nfault < MaxFaults THEN 1..n ELSE {})

Passes(cred, forbidden) == authenticateToken(cred) = 200 /\ ~forbidden

\* One write, then logAudit, in a try/catch answering 400 (part_000 186-211,
\* 282-293; part_001 embedded paths): `conflict` is the constraint the write
\* violates, `written` the store after it.
SyncWrite(kind, cred, conflict, written, audit, id) ==
  \E k \in IF conflict THEN {0} ELSE FaultAt(2) :
    /\ Admit
    /\ nfault' = nfault + Count(k # 0)
    /\ UNCHANGED <<tokens, reqs>>
    /\ IF conflict \/ k = 1
       THEN /\ db' = db
            /\ last' = Resp(kind, cred, 400, 0, {}, TRUE,
                            Trace(TRUE, TRUE, <<>>, db))
       ELSE IF k = 2
       THEN /\ db' = written
            /\ last' = Resp(kind, cred, 400, 0, {}, TRUE,
                            Trace(TRUE, TRUE, <<>>, db))
       ELSE /\ db' = InsertAudit(written, cred.uid, audit[1], audit[2], audit[3])
            /\ last' = Resp(kind, cred, 200, id, {}, TRUE,
                            Trace(FALSE, TRUE, <<>>, db))

\* The hosted form: the write is awaited and its error answered 400, then
\* logAudit is a second store call.
AsyncWrite(c, kind, cred, conflict, written, audit, id) ==
  \E f \in IF conflict THEN {FALSE} ELSE FaultChoice :
    /\ Admit
    /\ nfault' = nfault + Count(f)
    /\ UNCHANGED tokens
    /\ IF conflict \/ f
       THEN /\ db' = db
            /\ UNCHANGED reqs
            /\ last' = Resp(kind, cred, 400, 0, {}, TRUE,
                            Trace(TRUE, InFlight = {}, <<>>, db))
       ELSE /\ db' = written
            /\ reqs' = Arrive(c, [NewReq(kind, cred, cred.uid) EXCEPT
                                    !.id = id, !.audit = audit])
            /\ last' = NoResp

\* A handler that stores the row before it looks at the constraint.
WriteUnchecked(c, kind, cred, conflict, written, audit, id) ==
  /\ Admit
  /\ UNCHANGED <<tokens, reqs, nfault>>
  /\ db' = written
  /\ last' = Resp(kind, cred, IF conflict THEN 400 ELSE 200, id, {}, TRUE,
                  Trace(conflict, TRUE, <<>>, db))

Write(c, kind, cred, conflict, written, audit, id) ==
  IF Hosted THEN AsyncWrite(c, kind, cred, conflict, written, audit, id)
  ELSE SyncWrite(kind, cred, conflict, written, audit, id)

Reject(kind, cred, forbidden) ==
  /\ last' = Rejected(kind, cred,
                      IF authenticateToken(cred) # 200
                      THEN authenticateToken(cred) ELSE 403)
  /\ UNCHANGED <<db, tokens, reqs, nreq, nfault>>

\* stock_quantity: stock_quantity || 0 (part_002 158, 176)
OrZero(v) == IF v = NULL THEN 0 ELSE v

\* POST /api/products
CreateProduct(c, cred, f) ==
  /\ Receive(c)
  /\ UNCHANGED <<variant, now, pdv>>
  /\ IF ~Passes(cred, ProductForbidden(RoleOf(cred)))
     THEN Reject("createProduct", cred, ProductForbidden(RoleOf(cred)))
     ELSE Write(c, "createProduct", cred, CodeTaken(db, f.code, 0),
                InsertProduct(db, f, IF variant = "hosted"
                                     THEN OrZero(f.stock_quantity) ELSE 0),
                <<"CREATE", "PRODUCT", <<f.code, 0>>>>, Len(db.products) + 1)

\* PUT /api/products/:id
UpdateProduct(c, cred, pid, f) ==
  /\ Receive(c)
  /\ UNCHANGED <<variant, now, pdv>>
  /\ IF ~Passes(cred, ProductForbidden(RoleOf(cred)))
     THEN Reject("updateProduct", cred, ProductForbidden(RoleOf(cred)))
     ELSE Write(c, "updateProduct", cred,
                ProductExists(db, pid) /\ CodeTaken(db, f.code, pid),
                IF variant = "hosted"
                THEN WriteStock(UpdateProductRow(db, pid, f), pid,
                                OrZero(f.stock_quantity))
                ELSE UpdateProductRow(db, pid, f),
                <<"UPDATE", "PRODUCT", <<f.code, 0>>>>, 0)

\* POST /api/users
CreateUser(c, cred, f) ==
  /\ Receive(c)
  /\ UNCHANGED <<variant, now, pdv>>
  /\ IF ~Passes(cred, OwnerOnlyForbidden(RoleOf(cred)))
     THEN Reject("createUser", cred, OwnerOnlyForbidden(RoleOf(cred)))
     ELSE Write(c, "createUser", cred, UsernameTaken(db, f.username),
                InsertUser(db, f),
                <<"CREATE", "USER", <<f.username, 0>>>>, Len(db.users) + 1)

\* ---------------------------------------------------------------- sale, embedded
\* SELECT cost_price FROM products WHERE id (part_001 361-362); part_000
\* has no cost_price column on sale_items.
CostSnapshot(d, pid) ==
  IF variant = "embedded" THEN NULL
  ELSE IF ProductExists(d, pid) THEN d.products[pid].cost_price ELSE 0

\* The item loop inside db.transaction: writes 2+3(i-1) .. 4+3(i-1) of the
\* request. A sale item or movement naming no product violates its foreign
\* key and throws, as does the write at position k.
RECURSIVE TxItems(_, _, _, _, _, _)
TxItems(d, items, i, uid, saleId, k) ==
  IF i > Len(items) THEN [ok |-> TRUE, d |-> d]
  ELSE LET it == items[i]
           w == 2 + 3 * (i - 1)
       IN  IF ~ProductExists(d, it.id) \/ k \in {w, w + 1, w + 2}
           THEN [ok |-> FALSE, d |-> d]
           ELSE TxItems(
                  InsertMovement(
                    DecrementStock(
                      InsertSaleItem(d, saleId, it, CostSnapshot(d, it.id)),
                      it.id, it.quantity),
                    it, uid, saleId),
                  items, i + 1, uid, saleId, k)

\* db.transaction(() => { header; items; [logAudit] }): all or nothing.
\* part_000 logs the audit row inside the transaction (226), part_001
\* after it (374).
Transaction(d, uid, cart, k) ==
  LET saleId == Len(d.sales) + 1
      n == Len(cart.items)
      body == IF k = 1 THEN [ok |-> FALSE, d |-> d]
              ELSE TxItems(InsertSale(d, uid, cart.total, PaymentMethod),
                           cart.items, 1, uid, saleId, k)
      auditIn == variant = "embedded"
  IN  IF ~body.ok \/ (auditIn /\ k = 2 + 3 * n)
      THEN [ok |-> FALSE, d |-> d, id |-> 0]
      ELSE [ok |-> TRUE, id |-> saleId,
            d |-> IF auditIn
                  THEN InsertAudit(body.d, uid, "SALE", "SALES", <<"Venda", saleId>>)
                  ELSE body.d]

\* try { transaction(); [logAudit();] res.json({id}) } catch { 500 }.
\* In part_001 logAudit is async and not awaited: its failure is a dropped
\* rejection and the success response is still sent.
SyncSale(cred, cart) ==
  \E k \in FaultAt(2 + 3 * Len(cart.items)) :
    LET tx == Transaction(db, cred.uid, cart, k)
        lost == variant = "dualEmbedded" /\ k = 2 + 3 * Len(cart.items)
    IN  /\ Admit
        /\ nfault' = nfault + Count(k # 0)
        /\ UNCHANGED <<tokens, reqs>>
        /\ IF tx.ok
           THEN /\ db' = IF variant = "dualEmbedded" /\ ~lost
                         THEN InsertAudit(tx.d, cred.uid, "SALE", "SALES",
                                          <<"Venda", tx.id>>)
                         ELSE tx.d
                /\ last' = Resp("sale", cred, 200, tx.id, {}, TRUE,
                                Trace(lost, TRUE, cart.items, db))
           ELSE /\ db' = db
                /\ last' = Resp("sale", cred, 500, 0, {}, TRUE,
                                Trace(TRUE, TRUE, cart.items, db))

\* ---------------------------------------------------------------- sale, hosted
FirstItemPc == IF variant = "hosted" THEN "item_insert" ELSE "item_read"

\* sales.insert(...).select(): the only result the handler checks
\* (part_002 191-199, part_001 336-338).
AsyncSale(c, cred, cart) ==
  \E f \in FaultChoice :
    /\ Admit
    /\ nfault' = nfault + Count(f)
    /\ UNCHANGED tokens
    /\ IF f
       THEN /\ db' = db
            /\ UNCHANGED reqs
            /\ last' = Resp("sale", cred, 500, 0, {}, TRUE,
                            Trace(TRUE, InFlight = {}, cart.items, db))
       ELSE LET saleId == Len(db.sales) + 1 IN
            /\ db' = InsertSale(db, cred.uid, cart.total, PaymentMethod)
            /\ reqs' = Arrive(c, [NewReq("sale", cred, cred.uid) EXCEPT
                 !.pc = IF cart.items = <<>> THEN "audit" ELSE FirstItemPc,
                 !.items = cart.items, !.total = cart.total,
                 !.saleId = saleId, !.idx = 1, !.id = saleId,
                 !.audit = <<"SALE", "SALES", <<"Venda", saleId>>>>])
            /\ last' = NoResp

\* POST /api/sales
RecordSale(c, cred, cart) ==
  /\ Receive(c)
  /\ UNCHANGED <<variant, now, pdv>>
  /\ IF ~Passes(cred, FALSE) THEN Reject("sale", cred, FALSE)
     ELSE IF Hosted THEN AsyncSale(c, cred, cart)
     ELSE SyncSale(cred, cart)

Step(c, pc) ==
  /\ reqs[c].pc = pc
  /\ last' = NoResp
  /\ UNCHANGED <<variant, now, pdv, tokens, nreq>>

\* products.select(...).eq('id', item.id).single(): data is null when no
\* row matches (part_002 206, part_001 341-343).
SaleItemRead(c) ==
  /\ Step(c, "item_read")
  /\ UNCHANGED <<db, nfault>>
  /\ LET r == reqs[c]
         pid == r.items[r.idx].id
         found == ProductExists(db, pid)
     IN  reqs' = [reqs EXCEPT ![c] = [r EXCEPT
           !.read = [found |-> found,
                     cost |-> IF found THEN db.products[pid].cost_price ELSE 0,
                     stock |-> IF found THEN db.products[pid].stock_quantity ELSE 0],
           !.pc = IF variant = "dualHosted" THEN "item_insert"
                  ELSE IF found THEN "item_update" ELSE "item_movement"]]

\* sale_items.insert(...): the result is dropped.
SaleItemInsert(c) ==
  /\ Step(c, "item_insert")
  /\ LET r == reqs[c]
         it == r.items[r.idx]
         fk == ~ProductExists(db, it.id)
     IN  \E f \in IF fk THEN {FALSE} ELSE FaultChoice :
           /\ nfault' = nfault + Count(f)
           /\ db' = IF fk \/ f THEN db
                    ELSE InsertSaleItem(db, r.saleId, it,
                           IF variant = "dualHosted" THEN r.read.cost ELSE NULL)
           /\ reqs' = [reqs EXCEPT ![c] = [r EXCEPT
                 !.failed = @ \/ fk \/ f,
                 !.pc = IF variant = "dualHosted" THEN "item_update"
                        ELSE "item_read"]]

\* products.update({ stock_quantity: <value read> - quantity }): the value
\* was read one or two store calls earlier.
SaleItemUpdate(c) ==
  /\ Step(c, "item_update")
  /\ LET r == reqs[c]
         it == r.items[r.idx]
     IN  \E f \in FaultChoice :
           /\ nfault' = nfault + Count(f)
           /\ db' = IF f THEN db
                    ELSE WriteStock(db, it.id, r.read.stock - it.quantity)
           /\ reqs' = [reqs EXCEPT ![c] = [r EXCEPT
                 !.failed = @ \/ f, !.pc = "item_movement"]]

\* stock_movements.insert(...): the result is dropped; then the next item.
SaleItemMovement(c) ==
  /\ Step(c, "item_movement")
  /\ LET r == reqs[c]
         it == r.items[r.idx]
         fk == ~ProductExists(db, it.id)
     IN  \E f \in IF fk THEN {FALSE} ELSE FaultChoice :
           /\ nfault' = nfault + Count(f)
           /\ db' = IF fk \/ f THEN db
                    ELSE InsertMovement(db, it, r.uid, r.saleId)
           /\ reqs' = [reqs EXCEPT ![c] = [r EXCEPT
                 !.failed = @ \/ fk \/ f,
                 !.idx = @ + 1,
                 !.pc = IF r.idx < Len(r.items) THEN FirstItemPc ELSE "audit"]]

\* ---------------------------------------------------------------- system
Next ==
  \E c \in Clients :
    \/ \E b \in LoginBodies : Login(c, b)
    \/ HostedAudit(c)
    \/ \E cred \in Creds : GetProducts(c, cred)
    \/ \E cred \in Creds : GetMovements(c, cred)
    \/ \E cred \in Creds : GetAudit(c, cred)
    \/ \E cred \in Creds : GetUsers(c, cred)
    \/ \E cred \in Creds, f \in ProductForms : CreateProduct(c, cred, f)
    \/ \E cred \in Creds, e \in ProductEdits :
         UpdateProduct(c, cred, e[1], e[2])
    \/ \E cred \in Creds, f \in UserForms : CreateUser(c, cred, f)
    \/ \E cred \in Creds, cart \in Carts : RecordSale(c, cred, cart)
    \/ SaleItemRead(c)
    \/ SaleItemInsert(c)
    \/ SaleItemUpdate(c)
    \/ SaleItemMovement(c)

\* The whole API; every store call succeeds unless it violates a constraint.
Spec == Init /\ [][Next]_vars

\* Sale recording alone, with store writes that can fail.
NextSale ==
  \E c \in Clients :
    \/ \E cred \in Creds, cart \in Carts : RecordSale(c, cred, cart)
    \/ SaleItemRead(c)
    \/ SaleItemInsert(c)
    \/ SaleItemUpdate(c)
    \/ SaleItemMovement(c)
    \/ HostedAudit(c)

SpecSale == InitFaulty /\ [][NextSale]_vars

\* ---------------------------------------------------------------- sales over time
\* POST /api/sales bodies for the reports: a plain sale; one that sells more
\* than the stock of product 2 (50) and whose total is not the sum of its
\* items; one of product 1 and of a product created meanwhile; one with
\* product 1 in two line items.
ReportCarts ==
  {[items |-> <<Item(1, 2, 3290)>>, total |-> 6580],
   [items |-> <<Item(2, 60, 1550)>>, total |-> 100],
   [items |-> <<Item(1, 1, 3290), Item(3, 1, 4000)>>, total |-> 7290],
   [items |-> <<Item(1, 2, 3290), Item(1, 3, 3290)>>, total |-> 16450]}

\* A new product under a name the catalogue already has: only the code is
\* unique.
ReportForms ==
  {[code |-> "003", name |-> "Cimento", price |-> 4000, cost_price |-> 3000,
    min_stock |-> 0, stock_quantity |-> NULL]}

\* The owner's requests, one at a time.
ReportCreds == {[kind |-> "valid", uid |-> 1]}
ReportClients == {1}
\* PUT /api/products/1 with a new price and cost_price.
ReportEdits == {<<1, FormOf("001")>>}

\* A day passes.
Tick ==
  /\ now < Len(Days)
  /\ now' = now + 1
  /\ last' = NoResp
  /\ UNCHANGED <<variant, db, tokens, reqs, nreq, nfault, pdv>>

\* The freshly seeded server on the first of the days.
InitReport ==
  /\ variant \in Variants
  /\ db = SeededDb
  /\ tokens = {1}
  /\ reqs = [c \in Clients |-> Idle]
  /\ nreq = 0
  /\ nfault = MaxFaults
  /\ now = 1
  /\ last = NoResp
  /\ pdv = PdvStart

NextReport ==
  \/ Tick
  \/ \E c \in ReportClients :
       \/ \E cred \in ReportCreds, q \in Ranges : GetDashboard(c, cred, q)
       \/ \E cred \in ReportCreds, q \in Ranges : GetReport(c, cred, q)
       \/ \E cred \in ReportCreds, f \in ReportForms :
            CreateProduct(c, cred, f)
       \/ \E cred \in ReportCreds, e \in ReportEdits :
            UpdateProduct(c, cred, e[1], e[2])
       \/ \E cred \in ReportCreds, cart \in ReportCarts :
            RecordSale(c, cred, cart)
       \/ SaleItemRead(c)
       \/ SaleItemInsert(c)
       \/ SaleItemUpdate(c)
       \/ SaleItemMovement(c)
       \/ HostedAudit(c)

\* Sales, catalogue changes and the reads of the dashboard and the report,
\* over several days.
SpecReport == InitReport /\ [][NextReport]_vars

\* ---------------------------------------------------------------- point of sale
\* The sales screen of the client. A handler runs to its first await in one
\* step and the screen is rendered again before the next event, so every
\* handler sees the current cart and flag; the server's side of a request
\* is left to the actions above and shows here as what the fetch settles to.
MaxQuantity == 2
MaxPosts == 2

\* The products the screen lists.
Catalogue == {SeedProducts[i] : i \in DOMAIN SeedProducts}
Deltas == {0 - 1, 1}
\* res.ok, an error status, a rejected fetch
Outcomes == {"ok", "error", "throw"}

InCart(items, id) == \E i \in DOMAIN items : items[i].id = id

\* An addToCart that always adds an entry.
addToCartAppend(items, product) ==
  Append(items, [id |-> product.id, price |-> product.price, quantity |-> 1])

addToCart(items, product) ==
  IF InCart(items, product.id)
  THEN [i \in DOMAIN items |->
          IF items[i].id = product.id
          THEN [items[i] EXCEPT !.quantity = @ + 1] ELSE items[i]]
  ELSE Append(items, [id |-> product.id, price |-> product.price, quantity |-> 1])

removeFromCart(items, id) == SelectSeq(items, LAMBDA item : item.id # id)

\* Math.max(1, item.quantity + delta)
updateQuantity(items, id, delta) ==
  [i \in DOMAIN items |->
     IF items[i].id = id
     THEN [items[i] EXCEPT !.quantity = IF @ + delta > 1 THEN @ + delta ELSE 1]
     ELSE items[i]]

\* cart.reduce((acc, item) => acc + item.price * item.quantity, 0)
RECURSIVE CartTotal(_)
CartTotal(items) ==
  IF items = <<>> THEN 0
  ELSE CartTotal(SubSeq(items, 1, Len(items) - 1))
         + items[Len(items)].price * items[Len(items)].quantity

QuantityOf(items, id) ==
  IF InCart(items, id)
  THEN items[CHOOSE i \in DOMAIN items : items[i].id = id].quantity
  ELSE 0

ServerIdle == UNCHANGED <<variant, db, tokens, reqs, nreq, nfault, now, last>>

\* A product picked from the search results, by Enter or by the scanner.
ClickProduct(product) ==
  /\ QuantityOf(pdv.cart, product.id) < MaxQuantity
  /\ pdv' = [pdv EXCEPT !.cart = addToCart(@, product)]
  /\ ServerIdle

\* The bin button of a cart entry.
ClickRemove(id) ==
  /\ InCart(pdv.cart, id)
  /\ pdv' = [pdv EXCEPT !.cart = removeFromCart(@, id)]
  /\ ServerIdle

\* The minus and plus buttons of a cart entry.
ClickQuantity(id, delta) ==
  /\ InCart(pdv.cart, id)
  /\ QuantityOf(pdv.cart, id) + delta <= MaxQuantity
  /\ pdv' = [pdv EXCEPT !.cart = updateQuantity(@, id, delta)]
  /\ ServerIdle

\* finalizeSale up to its await: nothing for an empty cart, else the flag is
\* raised and the cart and its total are posted.
finalizeSale ==
  /\ pdv.cart # <<>>
  /\ pdv.posts < MaxPosts
  /\ pdv' = [pdv EXCEPT
       !.isProcessing = TRUE,
       !.posts = @ + 1,
       !.pending = @ \cup {[n |-> pdv.posts + 1, items |-> pdv.cart,
                            total |-> CartTotal(pdv.cart)]}]
  /\ ServerIdle

\* <button onClick={finalizeSale} disabled={cart.length === 0 || isProcessing}>
ClickFinalize ==
  /\ ~(pdv.cart = <<>> \/ pdv.isProcessing)
  /\ finalizeSale

\* handleKeyDown: if (e.key === 'F10') { e.preventDefault(); finalizeSale(); }
PressF10 == finalizeSale

\* A finally block that lowers the flag only when the fetch did not throw.
SettledUnlessThrown(p, r, outcome) ==
  [p EXCEPT !.pending = @ \ {r},
            !.cart = IF outcome = "ok" THEN <<>> ELSE @,
            !.isProcessing = IF outcome = "throw" THEN @ ELSE FALSE]

\* finalizeSale after its await: if (res.ok) setCart([]); catch: alert;
\* finally: setIsProcessing(false).
Settled(p, r, outcome) ==
  [p EXCEPT !.pending = @ \ {r},
            !.cart = IF outcome = "ok" THEN <<>> ELSE @,
            !.isProcessing = FALSE]

\* The fetch of request n settles.
Settle(n, outcome) ==
  \E r \in pdv.pending :
    /\ r.n = n
    /\ pdv' = Settled(pdv, r, outcome)
    /\ ServerIdle

NextPdv ==
  \/ \E product \in Catalogue : ClickProduct(product)
  \/ \E product \in Catalogue : ClickRemove(product.id)
  \/ \E product \in Catalogue, delta \in Deltas : ClickQuantity(product.id, delta)
  \/ ClickFinalize
  \/ PressF10
  \/ \E n \in 1..MaxPosts, outcome \in Outcomes : Settle(n, outcome)

\* The sales screen under any sequence of clicks, key presses and responses.
SpecPdv == Init /\ [][NextPdv]_vars

\* The same, where every fetch settles: the browser resolves or rejects the
\* promise of each request, and the rest of finalizeSale then runs.
SpecPdvFair ==
  /\ Init
  /\ [][NextPdv]_vars
  /\ \A n \in 1..MaxPosts : WF_vars(\E outcome \in Outcomes : Settle(n, outcome))

\* ---------------------------------------------------------------- properties
RECURSIVE SumQty(_, _, _)
\* The quantity of product p over rows (line items, sale items) 1..n.
SumQty(rows, n, p) ==
  IF n = 0 THEN 0
  ELSE SumQty(rows, n - 1, p) +
       (IF (IF "product_id" \in DOMAIN rows[n] THEN rows[n].product_id
            ELSE rows[n].id) = p
        THEN rows[n].quantity ELSE 0)

IsPrefix(a, b) == Len(a) <= Len(b) /\ \A i \in DOMAIN a : a[i] = b[i]

SaleOk == last.kind = "sale" /\ last.status = 200

SaleItemsOf(id) == {i \in Rows(db.sale_items) : i.sale_id = id}
MovementsOf(id) ==
  {m \in Rows(db.stock_movements) : m.reason = id /\ m.type = "OUT"}
SaleAuditsOf(id) ==
  {a \in Rows(db.audit_logs) : a.action = "SALE" /\ a.details = <<"Venda", id>>}

\* C1: a sale answered with success and N line items has created exactly one
\* Sale, N SaleItem, N StockMovement(OUT) and one AuditLog row, and every
\* product it names holds its starting stock less the quantity sold (the
\* stock is compared for a request no other writing request overlapped).
C1_SuccessfulSaleWritesEverything ==
  SaleOk =>
    /\ Cardinality({x \in Rows(db.sales) : x.id = last.id}) = 1
    /\ Cardinality(SaleItemsOf(last.id)) = Len(last.items)
    /\ Cardinality(MovementsOf(last.id)) = Len(last.items)
    /\ Cardinality(SaleAuditsOf(last.id)) = 1
    /\ last.solo =>
         \A p \in DOMAIN last.pre.products :
           db.products[p].stock_quantity =
             last.pre.products[p].stock_quantity
               - SumQty(last.items, Len(last.items), p)

\* C2: a sale recording in which a write failed leaves no Sale, SaleItem or
\* StockMovement row and no stock change behind.
C2_FailedSaleLeavesNothing ==
  (last.kind = "sale" /\ last.failed /\ last.solo) =>
    /\ db.sales = last.pre.sales
    /\ db.sale_items = last.pre.sale_items
    /\ db.stock_movements = last.pre.stock_movements
    /\ Stocks(db) = Stocks(last.pre)

\* C3: once every sale recording has finished (and no store write failed),
\* each product's stock is its initial stock less the quantities of all
\* recorded line items for it: concurrent sales lose no update. (The
\* violating run shows the decrement as a read, SaleItemRead, followed by a
\* separate write-back, SaleItemUpdate.)
C3_NoLostStockUpdate ==
  (InFlight = {} /\ nfault = 0) =>
    \A p \in DOMAIN SeedProducts :
      db.products[p].stock_quantity =
        SeedProducts[p].stock_quantity
          - SumQty(db.sale_items, Len(db.sale_items), p)

\* C4: in no state of the store are only some writes of a sale present: a
\* Sale row is there together with all its SaleItems, their stock
\* decrements, their StockMovements and its audit row.
C4_SaleWritesVisibleTogether ==
  /\ \A c \in InFlight :
       reqs[c].kind = "sale" =>
         /\ Cardinality(SaleItemsOf(reqs[c].saleId)) = Len(reqs[c].items)
         /\ Cardinality(MovementsOf(reqs[c].saleId)) = Len(reqs[c].items)
         /\ SaleAuditsOf(reqs[c].saleId) # {}
  /\ \A x \in Rows(db.sales) : SaleAuditsOf(x.id) # {}

\* C5: a sale recording in which a write failed is answered 500 and never
\* with a success response carrying a sale id.
C5_FailedSaleAnswers500 ==
  (last.kind = "sale" /\ last.failed) => (last.status = 500 /\ last.id = 0)

ProductWrites == {"createProduct", "updateProduct"}
OwnerOnly == {"users", "createUser", "audit"}

\* C6: a product create or edit whose credential carries the role Vendedor,
\* and a user listing, user create or audit read whose role is not Dono, is
\* rejected before its handler runs: it returns no data and the step leaves
\* every table, the audit log included, as it was.
C6_RoleGateRejects ==
  [][((last'.kind \in ProductWrites /\ last'.role = "Vendedor")
       \/ (last'.kind \in OwnerOnly /\ last'.role # "Dono"))
      => (/\ last'.status \in {401, 403}
          /\ ~last'.handled
          /\ last'.data = {}
          /\ db' = db)]_vars

C6_Witness ==
  /\ last.kind = "createProduct" /\ last.cred = "valid"
  /\ last.role = "Vendedor" /\ last.status = 403

GateRejected == last.kind \notin {"none", "login"} /\ ~last.handled

\* C7 as stated: a missing or invalid credential is answered 401 and an
\* insufficient role 403, never the same status for the two causes.
C7_InvalidCredentialIs401 ==
  GateRejected =>
    IF last.cred = "valid" THEN last.status = 403 ELSE last.status = 401

\* C7 amended: a missing credential is answered 401; a credential that
\* jwt.verify rejects is answered 403, the status an insufficient role gets.
C7_MissingIs401InvalidIs403 ==
  GateRejected =>
    IF last.cred = "none" THEN last.status = 401 ELSE last.status = 403

C7_Witness ==
  /\ GateRejected /\ last.cred = "invalid" /\ last.status = 403

\* C8: behind the gate a handler runs only for a valid credential; a request
\* without one is answered 401 or 403, returns no data and leaves the store
\* and the set of tokens as they were.
C8_NoHandlerWithoutCredential ==
  [][(last'.kind \notin {"none", "login"} /\ last'.cred # "valid")
      => (/\ ~last'.handled
          /\ last'.status \in {401, 403}
          /\ last'.data = {}
          /\ db' = db
          /\ tokens' = tokens)]_vars

C8_Witness ==
  /\ last.kind = "products" /\ last.cred = "invalid" /\ last.status = 403
  /\ db.products # <<>>

Mutating == {"createProduct", "updateProduct", "sale", "createUser", "login"}

Mutated(a, b) ==
  \/ a.users # b.users \/ a.products # b.products \/ a.sales # b.sales
  \/ a.sale_items # b.sale_items \/ a.stock_movements # b.stock_movements

AuditAppended ==
  /\ Len(db.audit_logs) = Len(last.pre.audit_logs) + 1
  /\ db.audit_logs[Len(db.audit_logs)].user_id = last.uid

\* C9: a mutating request answered with success has appended exactly one
\* AuditLog row for its user, and a completed request whose mutation is
\* stored has its audit row stored too (for a request no other writing
\* request overlapped).
C9_MutationHasAuditRow ==
  (last.kind \in Mutating /\ last.handled /\ last.solo) =>
    /\ last.status = 200 => AuditAppended
    /\ Mutated(last.pre, db) => AuditAppended

\* C10: no step deletes a row of any table, and the rows of sales,
\* sale_items, stock_movements and audit_logs never change once written.
C10_AppendOnlyLedger ==
  [][/\ IsPrefix(db.sales, db'.sales)
     /\ IsPrefix(db.sale_items, db'.sale_items)
     /\ IsPrefix(db.stock_movements, db'.stock_movements)
     /\ IsPrefix(db.audit_logs, db'.audit_logs)
     /\ Len(db.users) <= Len(db'.users)
     /\ Len(db.products) <= Len(db'.products)
     /\ \A i \in DOMAIN db.products : db'.products[i].id = db.products[i].id
     /\ \A i \in DOMAIN db.users : db'.users[i].id = db.users[i].id]_vars

C10_Witness ==
  /\ last.kind = "updateProduct" /\ last.status = 200
  /\ db.sales # <<>> /\ db.sale_items # <<>> /\ Len(db.audit_logs) >= 2

\* The sale items of the sale a success response l reports, in store d, each
\* carrying the cost_price its product had when the request arrived.
CostSnapshotStored(l, d) ==
  (l.kind = "sale" /\ l.status = 200) =>
    \A i \in {x \in Rows(d.sale_items) : x.sale_id = l.id} :
      i.cost_price = l.pre.products[i.product_id].cost_price

\* C11: a sale item stores its product's cost_price as of the sale, and a
\* step that edits products changes no existing sale item and, for no query,
\* the net profit the dashboard reports.
C11_CostSnapshotKept ==
  [][/\ CostSnapshotStored(last', db')
     /\ IsPrefix(db.sale_items, db'.sale_items)
     /\ (db'.sales = db.sales /\ db'.sale_items = db.sale_items) =>
          \A q \in Ranges : MonthTotal(db', q) = MonthTotal(db, q)]_vars

\* The sale items of the period of query q: of its range, or since the
\* start of the current calendar month.
PeriodItems(d, q) ==
  SelectSeq(d.sale_items, LAMBDA i :
    IF HasRange(q) THEN InRange(SaleOf(d, i).created_at, q)
    ELSE SaleOf(d, i).created_at >= StartOfMonth(Today))

DashboardAnswered == last.kind = "dashboard" /\ last.status = 200

\* C12: the month.total of a dashboard response is the sum of
\* quantity * (price - cost_price), an absent cost_price counting 0, over
\* the sale items whose sale lies in the query's range or, without a range,
\* in the current calendar month of the current year.
C12_MonthTotalIsPeriodProfit ==
  DashboardAnswered =>
    \A r \in last.data :
      r.stats.month.total = Profits(PeriodItems(db, r.query))

\* C13: the criticalStock of a dashboard response, whatever its query, is
\* the number of products whose stock_quantity is at most their min_stock.
C13_CriticalStockCountsLowProducts ==
  DashboardAnswered =>
    \A r \in last.data :
      r.stats.criticalStock =
        Cardinality({p \in DOMAIN db.products :
          db.products[p].stock_quantity <= db.products[p].min_stock})

ReportAnswered == last.kind = "report" /\ last.status = 200

\* The sale items of product p among items.
ItemsOfProduct(items, p) == SelectSeq(items, LAMBDA i : i.product_id = p)

\* C14: the topProducts of a report has at most 10 entries, in
\* non-increasing order of total_revenue, one for each distinct product of
\* the sale items it aggregates, with that product's name, the sum of its
\* quantities and the sum of its quantity * price.
C14_TopProductsPerProduct ==
  ReportAnswered =>
    \A r \in last.data :
      LET top == r.report.topProducts
          items == ReportItems(db, r.query)
          sold == {items[n].product_id : n \in DOMAIN items}
      IN  /\ Len(top) <= TopLimit
          /\ \A n \in 1..(Len(top) - 1) :
               top[n].total_revenue >= top[n + 1].total_revenue
          /\ Len(top) = IF Cardinality(sold) < TopLimit
                        THEN Cardinality(sold) ELSE TopLimit
          /\ Cardinality(sold) <= TopLimit =>
               \A p \in sold : \E n \in DOMAIN top :
                 /\ top[n].name = db.products[p].name
                 /\ top[n].total_qty = TotalQty(ItemsOfProduct(items, p))
                 /\ top[n].total_revenue
                      = TotalRevenue(ItemsOfProduct(items, p))

\* The sale items whose sale was created inside the range of q.
RangeItems(d, q) ==
  SelectSeq(d.sale_items, LAMBDA i : InRange(SaleOf(d, i).created_at, q))

\* C15: a report asked with a range lists exactly the sales created inside
\* it, and its topProducts add up to the quantities and revenues of the sale
\* items of those sales: an item of a sale outside the range adds nothing.
C15_ReportCountsOnlyTheRange ==
  ReportAnswered =>
    \A r \in last.data :
      HasRange(r.query) =>
        LET top == r.report.topProducts
            inside == RangeItems(db, r.query)
        IN  /\ {s.id : s \in r.report.sales}
                 = {s.id : s \in {x \in Rows(db.sales) :
                                    InRange(x.created_at, r.query)}}
            /\ Sum([n \in DOMAIN top |-> top[n].total_qty]) = TotalQty(inside)
            /\ Sum([n \in DOMAIN top |-> top[n].total_revenue])
                 = TotalRevenue(inside)

\* C16: every sale of a report's sales list carries the name of the user
\* who issued it and an items collection holding exactly the sale items of
\* that sale, each with its product's name.
C16_ReportSalesCarryTheirItems ==
  ReportAnswered =>
    \A r \in last.data : \A s \in r.report.sales :
      /\ s.user_name = db.users[s.user_id].name
      /\ s.has_items
      /\ {i.id : i \in s.items}
           = {x.id : x \in {y \in Rows(db.sale_items) : y.sale_id = s.id}}
      /\ \A i \in s.items :
           /\ i.sale_id = s.id
           /\ i.name = db.products[i.product_id].name

\* C17: no two products have the same code and no two users the same
\* username.
C17_CodesAndUsernamesUnique ==
  /\ \A i, j \in DOMAIN db.products :
       i # j => db.products[i].code # db.products[j].code
  /\ \A i, j \in DOMAIN db.users :
       i # j => db.users[i].username # db.users[j].username

\* A product has been added and a request that would have duplicated a
\* code has just been refused.
C17_Witness ==
  /\ Len(db.products) > Len(SeedProducts)
  /\ last.kind \in {"createProduct", "updateProduct"}
  /\ last.status = 400 /\ last.failed

CatalogueWrites == {"createProduct", "updateProduct", "createUser"}

\* C18: a product create, product update or user create that violates the
\* uniqueness of code or username is answered 400 and its step leaves every
\* table as it was, the audit log included.
C18_DuplicateRefusedWithoutTrace ==
  [][(last'.kind \in CatalogueWrites /\ last'.failed)
      => (last'.status = 400 /\ db' = db)]_vars

C18_Witness ==
  /\ last.kind = "createUser" /\ last.status = 400 /\ last.failed
  /\ db.audit_logs # <<>>

\* A sale request that names existing products only, answered.
SaleOfKnownProducts ==
  /\ last.kind = "sale" /\ last.handled /\ last.solo
  /\ \A n \in DOMAIN last.items : ProductExists(last.pre, last.items[n].id)

\* C19: a sale is recorded whatever the stock: it is answered with success,
\* its items are stored with the quantities asked for, and every product's
\* stock is its former stock less the quantity sold, below zero when the
\* quantity exceeds it.
C19_NoStockFloor ==
  SaleOfKnownProducts =>
    /\ last.status = 200
    /\ \A n \in DOMAIN last.items :
         \E i \in SaleItemsOf(last.id) :
           /\ i.product_id = last.items[n].id
           /\ i.quantity = last.items[n].quantity
    /\ \A p \in DOMAIN last.pre.products :
         db.products[p].stock_quantity =
           last.pre.products[p].stock_quantity
             - SumQty(last.items, Len(last.items), p)

\* 60 units of product 2 were sold out of a stock of 50.
C19_Witness ==
  /\ SaleOfKnownProducts /\ last.status = 200
  /\ \E n \in DOMAIN last.items :
       last.items[n].quantity
         > last.pre.products[last.items[n].id].stock_quantity
  /\ db.products[2].stock_quantity = 0 - 10

\* C20: whenever POST /api/sales with some body stores a sale, the row's
\* total is the total of the body, and a body naming existing products is
\* stored whether or not its total is the sum of quantity * price of its
\* items.
C20_TotalIsTheCallersTotal ==
  [][\A c \in ReportClients, cred \in ReportCreds, cart \in ReportCarts :
       RecordSale(c, cred, cart) =>
         /\ db'.sales # db.sales =>
              /\ Len(db'.sales) = Len(db.sales) + 1
              /\ db'.sales[Len(db'.sales)].total = cart.total
         /\ (\A n \in DOMAIN cart.items : ProductExists(db, cart.items[n].id))
              => db'.sales # db.sales]_vars

\* A sale answered with success whose stored total (1.00) is not the sum of
\* its items (60 * 15.50).
C20_Witness ==
  /\ SaleOk
  /\ SaleItemsOf(last.id) # {}
  /\ db.sales[last.id].total
       # TotalRevenue(SelectSeq(db.sale_items, LAMBDA i : i.sale_id = last.id))

\* ------------------------------------------------------------ chart data
\* The sales a chart is asked about: those of the query's range or, without
\* a range, those of the last seven days.
RequestedSales(d, q) ==
  SelectSeq(d.sales, LAMBDA s :
    IF HasRange(q) THEN InRange(s.created_at, q)
    ELSE s.created_at >= SevenDaysAgo(Today))

RequestedDays(d, q) ==
  {RequestedSales(d, q)[i].created_at : i \in DOMAIN RequestedSales(d, q)}

\* C21: the chartData of a dashboard response has exactly one entry per
\* calendar day with a sale in the requested range (the query's from/to,
\* else the last seven days), each entry's total is the sum of the totals
\* of that day's sales, and the entries are in strictly ascending date
\* order.
C21_ChartCoversTheRequestedDays ==
  DashboardAnswered =>
    \A r \in last.data :
      LET chart == r.stats.chartData
      IN  /\ {chart[i].date : i \in DOMAIN chart} = RequestedDays(db, r.query)
          /\ \A i \in DOMAIN chart :
                chart[i].total =
                  Totals(SelectSeq(RequestedSales(db, r.query),
                                   LAMBDA s : s.created_at = chart[i].date))
          /\ \A i, j \in DOMAIN chart : i < j => chart[i].date < chart[j].date

\* ------------------------------------------------------------ order of a sale's writes
\* A line item, a SaleItem row or a StockMovement row as product and quantity.
LineOf(row) ==
  <<IF "product_id" \in DOMAIN row THEN row.product_id ELSE row.id, row.quantity>>
Lines(rows) == [i \in DOMAIN rows |-> LineOf(rows[i])]

\* The SaleItem and StockMovement rows of a sale, in the order of creation.
ItemLines(id) == Lines(SelectSeq(db.sale_items, LAMBDA i : i.sale_id = id))
MovementLines(id) ==
  Lines(SelectSeq(db.stock_movements, LAMBDA m : m.reason = id /\ m.type = "OUT"))

\* Whether the sale in flight has inserted the SaleItem of, and has written
\* the stock of, the line item it is working on.
ItemInserted(r) ==
  IF variant = "hosted" THEN r.pc \in {"item_read", "item_update", "item_movement"}
  ELSE r.pc \in {"item_update", "item_movement"}
StockWritten(r) == r.pc = "item_movement"

\* C22: within one sale the writes of line item i (SaleItem, stock
\* decrement, StockMovement) all come before any write of line item i + 1,
\* and the SaleItem and StockMovement rows are created in the order of the
\* items array. Stated for sales none of whose writes failed; the stock is
\* compared for a sale no other writing request overlapped.
C22_ItemWritesInCallerOrder ==
  /\ (SaleOk /\ ~last.failed) =>
        /\ ItemLines(last.id) = Lines(last.items)
        /\ MovementLines(last.id) = Lines(last.items)
  /\ \A c \in InFlight :
        LET r == reqs[c]
            done == r.idx - 1
        IN  (r.kind = "sale" /\ ~r.failed) =>
              /\ MovementLines(r.saleId) = SubSeq(Lines(r.items), 1, done)
              /\ ItemLines(r.saleId) =
                    SubSeq(Lines(r.items), 1, done + Count(ItemInserted(r)))
              /\ r.solo =>
                    \A p \in DOMAIN r.pre.products :
                      db.products[p].stock_quantity =
                        r.pre.products[p].stock_quantity
                          - SumQty(r.items, done + Count(StockWritten(r)), p)

\* A sale of two line items, alone in the store, has written all of the
\* first and, of the second, the SaleItem only.
C22_Witness ==
  \E c \in InFlight :
    /\ reqs[c].kind = "sale" /\ ~reqs[c].failed /\ reqs[c].solo
    /\ Len(reqs[c].items) = 2 /\ reqs[c].idx = 2
    /\ reqs[c].pc = "item_update"
    /\ Len(ItemLines(reqs[c].saleId)) = 2
    /\ Len(MovementLines(reqs[c].saleId)) = 1

\* ------------------------------------------------------------ product edits
\* C23: PUT /api/products/:id changes descriptive fields only: whatever the
\* body (the client's form sends no stock_quantity), no product's
\* stock_quantity differs after the handler's write.
C23_EditLeavesStock ==
  [][\A c \in Clients, cred \in Creds, e \in ProductEdits :
       UpdateProduct(c, cred, e[1], e[2]) => Stocks(db') = Stocks(db)]_vars

\* ------------------------------------------------------------ stock ledger
\* The stock a product was created with: the seeded quantity, or the
\* quantity its creation stored (none of the creation forms carries one).
CreationStock(p) ==
  IF p \in DOMAIN SeedProducts THEN SeedProducts[p].stock_quantity ELSE 0

OutQuantity(d, p) ==
  Sum([i \in DOMAIN d.stock_movements |->
         IF d.stock_movements[i].product_id = p /\ d.stock_movements[i].type = "OUT"
         THEN d.stock_movements[i].quantity ELSE 0])

\* C24: whenever no request is in flight, every product's stock at creation
\* less its current stock equals the sum of the quantities of its OUT
\* StockMovement rows.
C24_StockMatchesMovements ==
  InFlight = {} =>
    \A p \in DOMAIN db.products :
      CreationStock(p) - db.products[p].stock_quantity = OutQuantity(db, p)

\* ------------------------------------------------------------ references to sales
SaleIds(d) == {d.sales[i].id : i \in DOMAIN d.sales}

\* C25: in every state, between the writes of a sale and after a sale some
\* of whose writes failed included, every SaleItem's sale_id is the id of a
\* Sale row and every sale StockMovement's reason names a Sale row.
C25_ItemsAndMovementsNameASale ==
  /\ \A i \in Rows(db.sale_items) : i.sale_id \in SaleIds(db)
  /\ \A m \in Rows(db.stock_movements) : m.reason \in SaleIds(db)

\* A sale in flight one of whose writes has failed and which has left a
\* SaleItem row.
C25_Witness ==
  \E c \in InFlight :
    /\ reqs[c].kind = "sale" /\ reqs[c].failed
    /\ \E i \in Rows(db.sale_items) : i.sale_id = reqs[c].saleId

\* ------------------------------------------------------------ repeated products
HasRepeat(items) ==
  \E i, j \in DOMAIN items : i < j /\ items[i].id = items[j].id

\* C26: a sale whose items name the same product in two or more line items
\* lowers that product's stock by the sum of their quantities and creates
\* one SaleItem and one StockMovement row per line item (for a sale no
\* other writing request overlapped).
C26_RepeatedProductSumsUp ==
  (SaleOk /\ last.solo /\ HasRepeat(last.items)) =>
    /\ \A p \in DOMAIN last.pre.products :
         db.products[p].stock_quantity =
           last.pre.products[p].stock_quantity
             - SumQty(last.items, Len(last.items), p)
    /\ ItemLines(last.id) = Lines(last.items)
    /\ MovementLines(last.id) = Lines(last.items)

\* A sale of 2 + 3 units of product 1 in two line items has been answered.
C26_Witness ==
  /\ SaleOk /\ last.solo /\ HasRepeat(last.items)
  /\ SumQty(last.items, Len(last.items), 1) = 5
  /\ db.products[1].stock_quantity = last.pre.products[1].stock_quantity - 5

\* ------------------------------------------------------------ edits of no product
LastAudit(d) == d.audit_logs[Len(d.audit_logs)]

UpdateAuditAppended ==
  /\ Len(db'.audit_logs) = Len(db.audit_logs) + 1
  /\ LastAudit(db').action = "UPDATE"
  /\ LastAudit(db').entity = "PRODUCT"

\* C29: PUT /api/products/:id by a permitted caller with an id that matches
\* no row leaves every Product row as it was, and the request still ends
\* with the success response and a new UPDATE/PRODUCT AuditLog row: at once
\* in the embedded handlers, with the awaited logAudit call in the hosted
\* ones.
C29_EditOfNoProductSucceeds ==
  [][/\ \A e \in ProductEdits :
          ~ProductExists(db, e[1]) =>
            \A cred \in Creds :
              Passes(cred, ProductForbidden(RoleOf(cred))) =>
                \A c \in Clients :
                  UpdateProduct(c, cred, e[1], e[2]) =>
                    /\ db'.products = db.products
                    /\ IF Hosted
                       THEN /\ reqs'[c].pc = "audit"
                            /\ reqs'[c].kind = "updateProduct"
                            /\ reqs'[c].audit[1] = "UPDATE"
                            /\ reqs'[c].audit[2] = "PRODUCT"
                       ELSE /\ last'.kind = "updateProduct"
                            /\ last'.status = 200
                            /\ UpdateAuditAppended
     /\ \A c \in Clients :
          (reqs[c].pc = "audit" /\ reqs[c].kind = "updateProduct" /\ HostedAudit(c)) =>
            /\ db'.products = db.products
            /\ last'.kind = "updateProduct"
            /\ last'.status = 200
            /\ UpdateAuditAppended]_vars

\* An edit of product 9, which does not exist, has been answered with
\* success: the products are those of before and the newest audit row is
\* its UPDATE/PRODUCT row.
C29_Witness ==
  /\ last.kind = "updateProduct" /\ last.status = 200 /\ last.solo
  /\ db.products = last.pre.products
  /\ db.audit_logs # <<>>
  /\ LastAudit(db).action = "UPDATE"
  /\ LastAudit(db).entity = "PRODUCT"
  /\ LastAudit(db).details = <<"003", 0>>
  /\ Len(db.audit_logs) = Len(last.pre.audit_logs) + 1

\* ------------------------------------------------------------ point of sale
\* C27: whatever the interleaving of clicks on the finalize button and F10
\* presses, no finalizeSale invocation starts a request while isProcessing
\* is true, so that at most one POST /api/sales is in flight at a time and a
\* cart is submitted at most once.
C27_OneSaleInFlight ==
  [][/\ pdv'.posts > pdv.posts => ~pdv.isProcessing
     /\ Cardinality(pdv'.pending) <= 1]_vars

CartWellFormed(items) ==
  /\ \A i, j \in DOMAIN items : i # j => items[i].id # items[j].id
  /\ \A i \in DOMAIN items : items[i].quantity \in Nat /\ items[i].quantity >= 1

\* C28: after any sequence of addToCart, updateQuantity and removeFromCart
\* each product id is in at most one cart entry and every quantity is an
\* integer of at least 1; the same holds of every cart sent with a sale,
\* whose total is the sum of price * quantity over its entries.
C28_CartWellFormed ==
  /\ CartWellFormed(pdv.cart)
  /\ \A r \in pdv.pending :
       /\ CartWellFormed(r.items)
       /\ r.total = Sum([i \in DOMAIN r.items |->
                           r.items[i].price * r.items[i].quantity])

\* A cart of two entries, one of them raised to quantity 2, has been sent
\* with the total 2 * 32.90 + 15.50.
C28_Witness ==
  \E r \in pdv.pending :
    /\ Len(r.items) = 2
    /\ \E i \in DOMAIN r.items : r.items[i].quantity = 2
    /\ r.total = 8130

Pending(n) == \E r \in pdv.pending : r.n = n

\* C30: every finalizeSale invocation that has started a request comes to
\* set isProcessing back to false, whether the request succeeds, is
\* answered with an error status or throws; the cart is emptied when the
\* server answered OK and is left as it is otherwise.
C30_EverySaleSettles ==
  /\ [][\A n \in 1..MaxPosts, outcome \in Outcomes :
          Settle(n, outcome) =>
            /\ ~pdv'.isProcessing
            /\ pdv'.cart = IF outcome = "ok" THEN <<>> ELSE pdv.cart]_vars
  /\ \A n \in 1..MaxPosts : Pending(n) ~> (~Pending(n) /\ ~pdv.isProcessing)

\* A request has settled without success: nothing is awaited, the flag is
\* down and the cart is still there.
C30_Witness ==
  /\ pdv.posts = 1
  /\ pdv.pending = {}
  /\ ~pdv.isProcessing
  /\ pdv.cart # <<>>

====
